---- MODULE Spec2Model ----
(***************************************************************************)
(* Model of the DuoPlus engagement scripts (scripts/duoplus): the template *)
(* matching locator (template_matching.py) and the four action scripts     *)
(* (like_action.py, ai_comment_action.py, retweet_action.py,               *)
(* follow_action.py) driving a device through DuoPlusClient.               *)
(*                                                                         *)
(* Confidences are integers counting units of 2^-24 / 5, fine enough to    *)
(* tell 0.65 from the float32 nearest to it.  A correlation surface (the   *)
(* array cv2.matchTemplate returns) is a sequence of points [px, py, conf] *)
(* listed in row-major order, the order numpy.where walks.                 *)
(***************************************************************************)
EXTENDS Integers, Sequences, FiniteSets, TLC

VARIABLES
    kind,       \* kind[p]: which script invocation p runs
    pc,         \* pc[p]: position of invocation p inside its execute_* function
    loc,        \* loc[p]: the local variables of execute_*
    files,      \* the files under /tmp, shared by every invocation
    templates,  \* the template images under templates/
    calls,      \* calls[p]: history of the calls invocation p has issued
    outcome     \* outcome[p]: the dict execute_* returned

vars == <<kind, pc, loc, files, templates, calls, outcome>>

Procs == {1, 2}

(***************************************************************************)
(* Program constants.                                                      *)
(***************************************************************************)
None == -1
MAX_RETRY == 3
\* 0.65; confidences are counted in units of 2^-24 / 5, in which the float32
\* values of [0.5, 1) are the multiples of 5 and 0.65 is 13 * 2^22
THRESHOLD == 54525952
DEDUP_RADIUS == 50
WAIT_AFTER_SCROLL == 2
WAIT_AFTER_COMMENT_BUTTON == 3
WAIT_AFTER_RETWEET_BUTTON == 2
POST_BUTTON_X == 980
POST_BUTTON_Y == 350
REPOST_OPTION_X == 230
REPOST_OPTION_Y == 1440
FOLLOW_BUTTON_X == 990
FOLLOW_BUTTON_Y == 900

WAIT_AFTER_OPEN(k) == IF k = "follow" THEN 8 ELSE 10

TEMP_SCREENSHOT(k) ==
    CASE k = "like"    -> "/tmp/screenshot.png"
      [] k = "comment" -> "/tmp/screenshot.png"
      [] k = "retweet" -> "/tmp/screenshot_retweet.png"
      [] k = "follow"  -> "/tmp/screenshot_follow.png"

TEMP_SCREENSHOT_AFTER(k) ==
    CASE k = "like"    -> "/tmp/screenshot_after.png"
      [] k = "retweet" -> "/tmp/screenshot_retweet_after.png"
      [] k = "follow"  -> "/tmp/screenshot_follow_after.png"

TEMP_SCREENSHOT_MENU == "/tmp/screenshot_retweet_menu.png"

Paths == {"/tmp/screenshot.png", "/tmp/screenshot_after.png",
          "/tmp/screenshot_retweet.png", "/tmp/screenshot_retweet_menu.png",
          "/tmp/screenshot_retweet_after.png", "/tmp/screenshot_follow.png",
          "/tmp/screenshot_follow_after.png"}

TemplateNames == {"like_button", "comment_button", "retweet_button",
                  "repost_option", "follow_button"}

(***************************************************************************)
(* The locator: template_matching.find_button.                             *)
(***************************************************************************)
Abs(n) == IF n < 0 THEN -n ELSE n

\* cv2.imread: None for a missing or undecodable file.
ImgNone == [readable |-> FALSE, surface |-> <<>>]

NoFile == [exists |-> FALSE]

imread(fs, path) ==
    IF fs[path].exists /\ fs[path].frame.readable THEN fs[path].frame ELSE ImgNone

\* cv2.matchTemplate(screenshot, template, TM_CCOEFF_NORMED): the surface.
matchTemplate(screenshot, template) == screenshot.surface

\* the float32 nearest to v, for v in [0.5, 1): the nearest multiple of 5
float32(v) == 5 * ((v + 2) \div 5)

\* np.where(result >= THRESHOLD): result is a float32 array, so THRESHOLD is
\* compared as a float32; the offsets that pass, in row-major order.
Where(result) == SelectSeq(result, LAMBDA pt : pt.conf >= float32(THRESHOLD))

RECURSIVE MaxConf(_)
MaxConf(s) ==
    IF Len(s) = 1 THEN s[1].conf
    ELSE LET m == MaxConf(Tail(s)) IN IF s[1].conf >= m THEN s[1].conf ELSE m

\* cv2.minMaxLoc(result)[1]
max_val(result) == MaxConf(result)

\* matches.append((pt.x + w // 2, pt.y + h // 2, conf))
Matches(locations, template) ==
    [k \in 1..Len(locations) |->
        [x    |-> locations[k].px + (template.w \div 2),
         y    |-> locations[k].py + (template.h \div 2),
         conf |-> locations[k].conf]]

\* sorted(matches, key=lambda x: x[1]): a stable sort on y.
RECURSIVE InsertByY(_, _)
InsertByY(m, s) ==
    IF s = <<>> THEN <<m>>
    ELSE IF s[Len(s)].y <= m.y THEN Append(s, m)
    ELSE Append(InsertByY(m, SubSeq(s, 1, Len(s) - 1)), s[Len(s)])

RECURSIVE SortedByY(_)
SortedByY(s) ==
    IF s = <<>> THEN <<>>
    ELSE InsertByY(s[Len(s)], SortedByY(SubSeq(s, 1, Len(s) - 1)))

\* faulty variant: the horizontal centers are compared, m[0] for m[1]
IsDuplicate_Horizontal(m, filtered) ==
    \E k \in 1..Len(filtered) : Abs(m.x - filtered[k].x) < DEDUP_RADIUS

\* abs(m[1] - f[1]) < 50 for some f already kept
IsDuplicate(m, filtered) ==
    \E k \in 1..Len(filtered) : Abs(m.y - filtered[k].y) < DEDUP_RADIUS

\* faulty variant: a duplicate replaces the candidate kept for its group
RECURSIVE Dedup_KeepLast(_, _)
Dedup_KeepLast(sorted, filtered) ==
    IF sorted = <<>> THEN filtered
    ELSE Dedup_KeepLast(Tail(sorted),
               IF IsDuplicate(sorted[1], filtered)
               THEN [filtered EXCEPT ![Len(filtered)] = sorted[1]]
               ELSE Append(filtered, sorted[1]))

\* the greedy loop building `filtered` from the sorted matches
RECURSIVE Dedup(_, _)
Dedup(sorted, filtered) ==
    IF sorted = <<>> THEN filtered
    ELSE Dedup(Tail(sorted),
               IF IsDuplicate(sorted[1], filtered) THEN filtered
               ELSE Append(filtered, sorted[1]))

Filtered(matches) == Dedup(SortedByY(matches), <<>>)

\* max(filtered, key=lambda x: x[2]): the first element of maximal confidence
MaxByConf(s) ==
    s[CHOOSE k \in 1..Len(s) :
        /\ \A j \in 1..Len(s) : s[j].conf <= s[k].conf
        /\ \A j \in 1..(k - 1) : s[j].conf < s[k].conf]

\* faulty variant: select_topmost is ignored and the maximum taken always
Selected_AlwaysBest(filtered, select_topmost) == MaxByConf(filtered)

Selected(filtered, select_topmost) ==
    IF select_topmost THEN filtered[1] ELSE MaxByConf(filtered)

find_button(screenshot, template, select_topmost) ==
    IF ~screenshot.readable
    THEN [success |-> FALSE, error |-> "SCREENSHOT_ERROR", x |-> None, y |-> None,
          confidence |-> 0, count |-> 0]
    ELSE IF ~template.readable
    THEN [success |-> FALSE, error |-> "TEMPLATE_ERROR", x |-> None, y |-> None,
          confidence |-> 0, count |-> 0]
    ELSE LET result    == matchTemplate(screenshot, template)
             locations == Where(result)
         IN  IF Len(locations) = 0
             THEN [success |-> FALSE, error |-> "NOT_FOUND", x |-> None, y |-> None,
                   confidence |-> max_val(result), count |-> 0]
             ELSE LET filtered == Filtered(Matches(locations, template))
                      selected == Selected(filtered, select_topmost)
                  IN  [success |-> TRUE, x |-> selected.x, y |-> selected.y,
                       confidence |-> selected.conf, count |-> Len(filtered)]

find_like_button(fs, ts, path) ==
    find_button(imread(fs, path), ts["like_button"], TRUE)

find_comment_button(fs, ts, path) ==
    find_button(imread(fs, path), ts["comment_button"], TRUE)

find_retweet_button(fs, ts, path) ==
    find_button(imread(fs, path), ts["retweet_button"], TRUE)

find_repost_option(fs, ts, path) ==
    find_button(imread(fs, path), ts["repost_option"], FALSE)

(***************************************************************************)
(* What the collaborators can answer.                                      *)
(***************************************************************************)
Pt(px, py, conf) == [px |-> px, py |-> py, conf |-> conf]

\* a cell of the float32 surface: the float32 at pct / 100 (at or next to it
\* below 0.5, where the float32 values lie closer than the unit)
Conf(pct) == float32((pct * 4194304) \div 5)

\* a screenshot file that cv2.imread cannot decode
FrameBad  == [readable |-> FALSE, surface |-> <<>>]
\* nothing near the threshold
FrameLow  == [readable |-> TRUE, surface |-> <<Pt(100, 200, Conf(30)), Pt(300, 900, Conf(20))>>]
\* a near miss
FrameNear == [readable |-> TRUE, surface |-> <<Pt(100, 200, Conf(60)), Pt(300, 900, Conf(64))>>]
\* one control on screen
FrameOne  == [readable |-> TRUE, surface |-> <<Pt(80, 700, Conf(20)), Pt(500, 1200, Conf(90))>>]
\* two controls 800 px apart, the upper one detected twice 10 px apart
FrameMulti == [readable |-> TRUE,
               surface |-> <<Pt(500, 100, Conf(70)), Pt(501, 110, Conf(95)), Pt(500, 900, Conf(80))>>]

Frames == {FrameBad, FrameLow, FrameNear, FrameOne, FrameMulti}

\* the frames of the concurrent runs: both show a control, at different
\* places, so a locate on the other invocation's frame shows in the point
FramesConc == {FrameOne, FrameMulti}

TemplateImg(ok) == [readable |-> ok, w |-> 44, h |-> 40]

TemplatesGood == [n \in TemplateNames |-> TemplateImg(TRUE)]
TemplatesNoRepost == [n \in TemplateNames |-> TemplateImg(n # "repost_option")]
TemplatesMissing == [n \in TemplateNames |-> TemplateImg(FALSE)]

\* generate_ai_comment returns a stripped string, possibly empty, or None
NoneText == "<None>"
Comments == {"Nice shot!", "it's great"}
GenerateResults == Comments \cup {"", NoneText}

\* target_username as a sequence of characters
Usernames == {<<"@", "a", "b">>, <<"a", "b">>, <<"@", "@", "a">>}

RECURSIVE lstrip(_, _)
lstrip(s, ch) ==
    IF s # <<>> /\ s[1] = ch THEN lstrip(Tail(s), ch) ELSE s

(***************************************************************************)
(* State of one invocation.                                                *)
(***************************************************************************)
Kinds == {"like", "comment", "retweet", "follow"}

NoOutcome == [pending |-> TRUE]

Locals0(arg) ==
    [found |-> FALSE, x |-> None, y |-> None, confidence |-> 0, retry_count |-> 0,
     i |-> 0, comment |-> NoneText, repost_x |-> None, repost_y |-> None,
     arg |-> arg, img_data |-> ImgNone, save_path |-> "", site |-> "",
     removed |-> 0]

Args(k) == IF k = "follow" THEN Usernames ELSE {<<>>}

StartPc(k) == IF k \in Kinds THEN "open_url" ELSE "idle"

\* history entries
CallOpenUrl(ok) == [op |-> "openUrl", ok |-> ok]
\* site: "first" (comment step 2), "loop", "menu" or "confirm"
CallCapture(ok, path, site) ==
    [op |-> "capture", ok |-> ok, path |-> path, site |-> site]
\* loaded: cv2.imread decoded both the screenshot and the template
CallLocate(res, path, writer, image, template) ==
    [op |-> "locate", ok |-> res.success, path |-> path, writer |-> writer,
     result |-> res, loaded |-> image.readable /\ template.readable]
CallTap(ok, x, y) == [op |-> "tap", ok |-> ok, x |-> x, y |-> y]
CallSwipe(ok) == [op |-> "swipeDown", ok |-> ok]
CallInput(ok, text) == [op |-> "inputText", ok |-> ok, text |-> text]
CallGenerate(text, path, writer) ==
    [op |-> "describeAndComment", ok |-> text # NoneText, path |-> path,
     writer |-> writer, text |-> text]
Sleep(secs) == [op |-> "sleep", secs |-> secs]

\* who wrote the frame a call reads (0: nobody, the file is missing or was
\* opened for writing and holds no byte yet)
WriterOf(fs, path) == IF fs[path].exists THEN fs[path].writer ELSE 0

Return(p, dict) ==
    /\ outcome' = [outcome EXCEPT ![p] = dict]
    /\ pc' = [pc EXCEPT ![p] = "done"]

Goto(p, label) ==
    /\ pc' = [pc EXCEPT ![p] = label]
    /\ UNCHANGED outcome

Log(p, entries) == calls' = [calls EXCEPT ![p] = @ \o entries]

\* open(save_path, 'wb'): the file is created or truncated; until the write
\* is over it holds no complete image, which cv2.imread cannot decode, and p
\* holds a handle on it
OpenWb(fs, path, p) ==
    [fs EXCEPT ![path] = [exists |-> TRUE, frame |-> ImgNone, writer |-> 0,
                          open |-> (IF fs[path].exists THEN fs[path].open ELSE {})
                                   \cup {p}]]

\* f.write(img_data) and the close: the bytes land, from the start, in the
\* file p opened; if that file was removed in between they land in no file
\* of the directory
WriteFile(fs, path, frame, p) ==
    IF fs[path].exists /\ p \in fs[path].open
    THEN [fs EXCEPT ![path] = [exists |-> TRUE, frame |-> frame, writer |-> p,
                               open |-> fs[path].open \ {p}]]
    ELSE fs

\* where each script goes on when take_screenshot returned True
AfterCapture(site) ==
    CASE site = "first"   -> "generate"
      [] site = "loop"    -> "find_button"
      [] site = "menu"    -> "find_repost_option"
      [] site = "confirm" -> "cleanup"

\* take_screenshot got the image from the device: img_data is decoded and
\* save_path opened for writing
Captured(p, path, site, FS) ==
    \E f \in FS :
        /\ files' = OpenWb(files, path, p)
        /\ loc' = [loc EXCEPT ![p].img_data = f, ![p].save_path = path,
                              ![p].site = site]
        /\ Goto(p, "f_write")
        /\ UNCHANGED calls

NOT_FOUND_ERROR(k) ==
    CASE k = "like"    -> "LIKE_BUTTON_NOT_FOUND"
      [] k = "comment" -> "COMMENT_BUTTON_NOT_FOUND"
      [] k = "retweet" -> "RETWEET_BUTTON_NOT_FOUND"

\* the dict returned after the loop when found is False
NotFoundOutcome(k, l) ==
    CASE k = "like" ->
            [success |-> FALSE, error |-> "LIKE_BUTTON_NOT_FOUND",
             retry_count |-> l.retry_count, confidence |-> l.confidence]
      [] k = "comment" ->
            [success |-> FALSE, error |-> "COMMENT_BUTTON_NOT_FOUND",
             comment |-> l.comment, retry_count |-> l.retry_count,
             confidence |-> l.confidence]
      [] k = "retweet" ->
            [success |-> FALSE, error |-> "RETWEET_BUTTON_NOT_FOUND",
             retry_count |-> l.retry_count, confidence |-> l.confidence,
             debug_screenshot |-> TEMP_SCREENSHOT("retweet")]

\* faulty variant: the comment script's TAP_FAILED dict leaves the comment out
TapFailedOutcome_NoComment(k, l) ==
    CASE k = "like" ->
            [success |-> FALSE, error |-> "TAP_FAILED", x |-> l.x, y |-> l.y,
             confidence |-> l.confidence, retry_count |-> l.retry_count]
      [] k = "comment" ->
            [success |-> FALSE, error |-> "TAP_FAILED", x |-> l.x, y |-> l.y]
      [] k = "retweet" ->
            [success |-> FALSE, error |-> "TAP_RETWEET_BUTTON_FAILED", x |-> l.x,
             y |-> l.y, confidence |-> l.confidence, retry_count |-> l.retry_count]
      [] k = "follow" ->
            [success |-> FALSE, error |-> "TAP_FOLLOW_BUTTON_FAILED", x |-> l.x,
             y |-> l.y, confidence |-> l.confidence, retry_count |-> l.retry_count]

\* the dict returned when client.tap(x, y) on the control fails
TapFailedOutcome(k, l) ==
    CASE k = "like" ->
            [success |-> FALSE, error |-> "TAP_FAILED", x |-> l.x, y |-> l.y,
             confidence |-> l.confidence, retry_count |-> l.retry_count]
      [] k = "comment" ->
            [success |-> FALSE, error |-> "TAP_FAILED", comment |-> l.comment,
             x |-> l.x, y |-> l.y]
      [] k = "retweet" ->
            [success |-> FALSE, error |-> "TAP_RETWEET_BUTTON_FAILED", x |-> l.x,
             y |-> l.y, confidence |-> l.confidence, retry_count |-> l.retry_count]
      [] k = "follow" ->
            [success |-> FALSE, error |-> "TAP_FOLLOW_BUTTON_FAILED", x |-> l.x,
             y |-> l.y, confidence |-> l.confidence, retry_count |-> l.retry_count]

\* faulty variant: the retweet script reports the coordinates of its second tap with
\* confidence 0
SuccessOutcome_ReportsRepost(k, l) ==
    CASE k = "like" ->
            [success |-> TRUE, x |-> l.x, y |-> l.y, confidence |-> l.confidence,
             retry_count |-> l.retry_count]
      [] k = "retweet" ->
            [success |-> TRUE, x |-> l.repost_x, y |-> l.repost_y, confidence |-> 0,
             retry_count |-> l.retry_count]
      [] k = "comment" ->
            [success |-> TRUE, comment |-> l.comment, x |-> l.x, y |-> l.y,
             confidence |-> l.confidence, retry_count |-> l.retry_count]
      [] k = "follow" ->
            [success |-> TRUE, x |-> l.x, y |-> l.y, confidence |-> l.confidence,
             retry_count |-> l.retry_count,
             target_username |-> lstrip(l.arg, "@")]

\* the dict returned at the end of the function
SuccessOutcome(k, l) ==
    CASE k \in {"like", "retweet"} ->
            [success |-> TRUE, x |-> l.x, y |-> l.y, confidence |-> l.confidence,
             retry_count |-> l.retry_count]
      [] k = "comment" ->
            [success |-> TRUE, comment |-> l.comment, x |-> l.x, y |-> l.y,
             confidence |-> l.confidence, retry_count |-> l.retry_count]
      [] k = "follow" ->
            [success |-> TRUE, x |-> l.x, y |-> l.y, confidence |-> l.confidence,
             retry_count |-> l.retry_count,
             target_username |-> lstrip(l.arg, "@")]

\* found = False; x, y, confidence = None, None, 0; retry_count = 0;
\* then the first pass of `for i in range(MAX_RETRY)`: retry_count = i + 1
EnterLoop(l) ==
    [l EXCEPT !.found = FALSE, !.x = None, !.y = None, !.confidence = 0,
              !.i = 0, !.retry_count = 1]

\* faulty variant: range(MAX_RETRY + 1)
HasNext_OneMore(i) == i < MAX_RETRY

\* range(MAX_RETRY) has another value after i
HasNext(i) == i + 1 < MAX_RETRY

\* faulty variant: the scroll guard is off by one
ScrollAllowed_OffByOne(i) == i < MAX_RETRY

\* `if i < MAX_RETRY - 1` guarding scroll_down
ScrollAllowed(i) == i < MAX_RETRY - 1

\* faulty variant: a pass of the loop that does not count as an attempt
NextIteration_NoCount(l) == [l EXCEPT !.i = @ + 1]

\* the next pass of the loop: i advances and retry_count = i + 1
NextIteration(l) == [l EXCEPT !.i = @ + 1, !.retry_count = l.i + 2]

template_for(k, ts) ==
    CASE k = "like"    -> ts["like_button"]
      [] k = "comment" -> ts["comment_button"]
      [] k = "retweet" -> ts["retweet_button"]

find_for(k, fs, ts, path) ==
    CASE k = "like"    -> find_like_button(fs, ts, path)
      [] k = "comment" -> find_comment_button(fs, ts, path)
      [] k = "retweet" -> find_retweet_button(fs, ts, path)

(***************************************************************************)
(* The steps of execute_like, execute_ai_comment, execute_retweet and      *)
(* execute_follow: one action per collaborator call, together with the     *)
(* code that runs up to the next call or the return.                       *)
(***************************************************************************)

\* what follows time.sleep(WAIT_AFTER_OPEN) up to the next call
AfterOpen(p) ==
    /\ CASE kind[p] \in {"like", "retweet"} ->
                /\ loc' = [loc EXCEPT ![p] = EnterLoop(@)]
                /\ Goto(p, "take_screenshot")
         [] kind[p] = "comment" ->
                /\ Goto(p, "first_screenshot")
                /\ UNCHANGED loc
         [] kind[p] = "follow" ->
                /\ loc' = [loc EXCEPT ![p].x = FOLLOW_BUTTON_X,
                                      ![p].y = FOLLOW_BUTTON_Y,
                                      ![p].confidence = 0,
                                      ![p].retry_count = 1]
                /\ Goto(p, "tap")
    /\ UNCHANGED <<kind, files, templates>>

\* faulty variant: the result of open_url is not checked
OpenUrlFailed_Ignored(p) ==
    /\ Log(p, <<CallOpenUrl(FALSE), Sleep(WAIT_AFTER_OPEN(kind[p]))>>)
    /\ AfterOpen(p)

\* `if not client.open_url(...)`: the first return of every script
OpenUrlFailed(p) ==
    /\ Log(p, <<CallOpenUrl(FALSE)>>)
    /\ Return(p, [success |-> FALSE, error |-> "FAILED_TO_OPEN_URL"])
    /\ UNCHANGED <<kind, loc, files, templates>>

\* client.open_url(...) succeeded
OpenUrlOk(p) ==
    /\ Log(p, <<CallOpenUrl(TRUE), Sleep(WAIT_AFTER_OPEN(kind[p]))>>)
    /\ AfterOpen(p)

OpenUrl(p) ==
    /\ pc[p] = "open_url"
    /\ \/ OpenUrlFailed(p)
       \/ OpenUrlOk(p)

\* ai_comment_action step 2: the screenshot handed to generate_ai_comment
FirstScreenshot(p, FS) ==
    /\ pc[p] = "first_screenshot"
    /\ \/ /\ Log(p, <<CallCapture(FALSE, TEMP_SCREENSHOT(kind[p]), "first")>>)
          /\ Return(p, [success |-> FALSE, error |-> "SCREENSHOT_FAILED"])
          /\ UNCHANGED <<files, loc>>
       \/ Captured(p, TEMP_SCREENSHOT(kind[p]), "first", FS)
    /\ UNCHANGED <<kind, templates>>

\* faulty variant: `if comment is None`
NoText_OnlyNone(text) == text = NoneText

\* `if not comment`: None and the empty string
NoText(text) == text = NoneText \/ text = ""

\* ai_comment_action step 3: generate_ai_comment opens the file (an absent
\* file raises out of execute_ai_comment) and asks the vision model
GenerateComment(p) ==
    /\ pc[p] = "generate"
    /\ LET path == TEMP_SCREENSHOT(kind[p]) IN
       IF ~files[path].exists
       THEN /\ pc' = [pc EXCEPT ![p] = "raised"]
            /\ UNCHANGED <<loc, calls, outcome>>
       ELSE \E text \in GenerateResults :
            /\ Log(p, <<CallGenerate(text, path, WriterOf(files, path))>>)
            /\ IF NoText(text)
               THEN /\ Return(p, [success |-> FALSE,
                                  error |-> "COMMENT_GENERATION_FAILED"])
                    /\ loc' = [loc EXCEPT ![p].comment = text]
               ELSE /\ loc' = [loc EXCEPT ![p] = EnterLoop([@ EXCEPT !.comment = text])]
                    /\ Goto(p, "take_screenshot")
    /\ UNCHANGED <<kind, files, templates>>

\* the loop is left without break: `if not found: return {...}`
LoopExhausted(p, l) ==
    /\ loc' = [loc EXCEPT ![p] = l]
    /\ Return(p, NotFoundOutcome(kind[p], l))

\* `continue`: the next pass of the for loop, or its end
Continue(p) ==
    IF HasNext(loc[p].i)
    THEN /\ loc' = [loc EXCEPT ![p] = NextIteration(@)]
         /\ Goto(p, "take_screenshot")
    ELSE LoopExhausted(p, loc[p])

\* faulty variant: a failed capture scrolls before the next attempt, as a
\* NOT_FOUND result does
TakeScreenshot_ScrollOnFailure(p, FS) ==
    /\ pc[p] = "take_screenshot"
    /\ \/ /\ Log(p, <<CallCapture(FALSE, TEMP_SCREENSHOT(kind[p]), "loop")>>)
          /\ IF ScrollAllowed(loc[p].i)
             THEN Goto(p, "scroll_down") /\ UNCHANGED loc
             ELSE Continue(p)
          /\ UNCHANGED files
       \/ Captured(p, TEMP_SCREENSHOT(kind[p]), "loop", FS)
    /\ UNCHANGED <<kind, templates>>

\* faulty variant: the result of take_screenshot is not checked, the locate
\* call reads whatever file is there
TakeScreenshot_LocateAnyway(p, FS) ==
    /\ pc[p] = "take_screenshot"
    /\ \/ /\ Log(p, <<CallCapture(FALSE, TEMP_SCREENSHOT(kind[p]), "loop")>>)
          /\ Goto(p, "find_button")
          /\ UNCHANGED <<files, loc>>
       \/ Captured(p, TEMP_SCREENSHOT(kind[p]), "loop", FS)
    /\ UNCHANGED <<kind, templates>>

\* client.take_screenshot(TEMP_SCREENSHOT) inside the retry loop
TakeScreenshot(p, FS) ==
    /\ pc[p] = "take_screenshot"
    /\ \/ /\ Log(p, <<CallCapture(FALSE, TEMP_SCREENSHOT(kind[p]), "loop")>>)
          /\ Continue(p)
          /\ UNCHANGED files
       \/ Captured(p, TEMP_SCREENSHOT(kind[p]), "loop", FS)
    /\ UNCHANGED <<kind, templates>>

\* result["success"]: x, y, confidence are taken from the result and the
\* loop is left by break
Located(l, result) ==
    [l EXCEPT !.x = result.x, !.y = result.y, !.confidence = result.confidence,
              !.found = TRUE]

\* `if result["success"]`
IsFound(result) == result.success

\* result = find_*_button(TEMP_SCREENSHOT) and the branch on result["success"]
FindButton(p) ==
    /\ pc[p] = "find_button"
    /\ LET path   == TEMP_SCREENSHOT(kind[p])
           result == find_for(kind[p], files, templates, path)
       IN  /\ Log(p, <<CallLocate(result, path, WriterOf(files, path),
                                  imread(files, path),
                                  template_for(kind[p], templates))>>)
           /\ IF IsFound(result)
              THEN /\ loc' = [loc EXCEPT ![p] = Located(@, result)]
                   /\ Goto(p, "tap")
              ELSE IF ScrollAllowed(loc[p].i)
              THEN /\ Goto(p, "scroll_down")
                   /\ UNCHANGED loc
              ELSE Continue(p)
    /\ UNCHANGED <<kind, files, templates>>

\* client.scroll_down(); time.sleep(WAIT_AFTER_SCROLL): the result is unused
ScrollDown(p) ==
    /\ pc[p] = "scroll_down"
    /\ \E ok \in BOOLEAN :
          Log(p, <<CallSwipe(ok), Sleep(WAIT_AFTER_SCROLL)>>)
    /\ Continue(p)
    /\ UNCHANGED <<kind, files, templates>>

\* where each script goes after the tap on the control succeeded
AfterTap(k) ==
    CASE k \in {"like", "follow"} -> [sleep |-> 1, next |-> "confirm_screenshot"]
      [] k = "comment" -> [sleep |-> WAIT_AFTER_COMMENT_BUTTON, next |-> "input_text"]
      [] k = "retweet" -> [sleep |-> WAIT_AFTER_RETWEET_BUTTON, next |-> "menu_screenshot"]

\* faulty variant: the result of client.tap(x, y) is not checked
Tap_Unchecked(p) ==
    /\ pc[p] = "tap"
    /\ \E ok \in BOOLEAN :
          Log(p, <<CallTap(ok, loc[p].x, loc[p].y), Sleep(AfterTap(kind[p]).sleep)>>)
    /\ Goto(p, AfterTap(kind[p]).next)
    /\ UNCHANGED <<kind, loc, files, templates>>

\* client.tap(x, y) on the control
Tap(p) ==
    /\ pc[p] = "tap"
    /\ \/ /\ Log(p, <<CallTap(FALSE, loc[p].x, loc[p].y)>>)
          /\ Return(p, TapFailedOutcome(kind[p], loc[p]))
       \/ /\ Log(p, <<CallTap(TRUE, loc[p].x, loc[p].y),
                      Sleep(AfterTap(kind[p]).sleep)>>)
          /\ Goto(p, AfterTap(kind[p]).next)
    /\ UNCHANGED <<kind, loc, files, templates>>

\* ai_comment_action step 6: client.input_text(comment)
InputText(p) ==
    /\ pc[p] = "input_text"
    /\ \/ /\ Log(p, <<CallInput(FALSE, loc[p].comment)>>)
          /\ Return(p, [success |-> FALSE, error |-> "INPUT_FAILED",
                        comment |-> loc[p].comment, x |-> loc[p].x, y |-> loc[p].y])
       \/ /\ Log(p, <<CallInput(TRUE, loc[p].comment), Sleep(1)>>)
          /\ Goto(p, "post_tap")
    /\ UNCHANGED <<kind, loc, files, templates>>

\* faulty variant: the post tap goes to the located control again
PostTap_AtControl(p) ==
    /\ pc[p] = "post_tap"
    /\ \/ /\ Log(p, <<CallTap(FALSE, loc[p].x, loc[p].y)>>)
          /\ Return(p, [success |-> FALSE, error |-> "POST_TAP_FAILED",
                        comment |-> loc[p].comment, x |-> loc[p].x, y |-> loc[p].y])
       \/ /\ Log(p, <<CallTap(TRUE, loc[p].x, loc[p].y)>>)
          /\ Goto(p, "cleanup")
    /\ UNCHANGED <<kind, loc, files, templates>>

\* faulty variant: the comment script takes a confirmation screenshot too
PostTap_Confirms(p) ==
    /\ pc[p] = "post_tap"
    /\ \/ /\ Log(p, <<CallTap(FALSE, POST_BUTTON_X, POST_BUTTON_Y)>>)
          /\ Return(p, [success |-> FALSE, error |-> "POST_TAP_FAILED",
                        comment |-> loc[p].comment, x |-> loc[p].x, y |-> loc[p].y])
       \/ /\ Log(p, <<CallTap(TRUE, POST_BUTTON_X, POST_BUTTON_Y), Sleep(1),
                      CallCapture(FALSE, TEMP_SCREENSHOT_AFTER("like"), "confirm")>>)
          /\ Goto(p, "cleanup")
    /\ UNCHANGED <<kind, loc, files, templates>>

\* ai_comment_action step 7: client.tap(POST_BUTTON_X, POST_BUTTON_Y); the
\* cleanup follows
PostTap(p) ==
    /\ pc[p] = "post_tap"
    /\ \/ /\ Log(p, <<CallTap(FALSE, POST_BUTTON_X, POST_BUTTON_Y)>>)
          /\ Return(p, [success |-> FALSE, error |-> "POST_TAP_FAILED",
                        comment |-> loc[p].comment, x |-> loc[p].x, y |-> loc[p].y])
       \/ /\ Log(p, <<CallTap(TRUE, POST_BUTTON_X, POST_BUTTON_Y)>>)
          /\ Goto(p, "cleanup")
    /\ UNCHANGED <<kind, loc, files, templates>>

\* retweet_action step 6: client.take_screenshot(TEMP_SCREENSHOT_MENU)
MenuScreenshot(p, FS) ==
    /\ pc[p] = "menu_screenshot"
    /\ \/ /\ Log(p, <<CallCapture(FALSE, TEMP_SCREENSHOT_MENU, "menu")>>)
          /\ Return(p, [success |-> FALSE, error |-> "SCREENSHOT_MENU_FAILED",
                        x |-> loc[p].x, y |-> loc[p].y,
                        confidence |-> loc[p].confidence,
                        retry_count |-> loc[p].retry_count])
          /\ UNCHANGED <<files, loc>>
       \/ Captured(p, TEMP_SCREENSHOT_MENU, "menu", FS)
    /\ UNCHANGED <<kind, templates>>

\* faulty variant: no fallback, the coordinates stay unset when the menu
\* option is not located
RepostTarget_NoFallback(l, repost_result) ==
    IF repost_result.success
    THEN [l EXCEPT !.repost_x = repost_result.x, !.repost_y = repost_result.y]
    ELSE l

\* the coordinates of the second tap: located, or the fallback constants
RepostTarget(l, repost_result) ==
    IF repost_result.success
    THEN [l EXCEPT !.repost_x = repost_result.x, !.repost_y = repost_result.y]
    ELSE [l EXCEPT !.repost_x = REPOST_OPTION_X, !.repost_y = REPOST_OPTION_Y]

\* retweet_action: repost_result = find_repost_option(TEMP_SCREENSHOT_MENU)
FindRepostOption(p) ==
    /\ pc[p] = "find_repost_option"
    /\ LET repost_result == find_repost_option(files, templates, TEMP_SCREENSHOT_MENU)
       IN  /\ Log(p, <<CallLocate(repost_result, TEMP_SCREENSHOT_MENU,
                                  WriterOf(files, TEMP_SCREENSHOT_MENU),
                                  imread(files, TEMP_SCREENSHOT_MENU),
                                  templates["repost_option"])>>)
           /\ loc' = [loc EXCEPT ![p] = RepostTarget(@, repost_result)]
    /\ Goto(p, "tap_repost_option")
    /\ UNCHANGED <<kind, files, templates>>

\* retweet_action step 7: client.tap(repost_x, repost_y)
TapRepostOption(p) ==
    /\ pc[p] = "tap_repost_option"
    /\ \/ /\ Log(p, <<CallTap(FALSE, loc[p].repost_x, loc[p].repost_y)>>)
          /\ Return(p, [success |-> FALSE, error |-> "TAP_REPOST_OPTION_FAILED",
                        x |-> loc[p].x, y |-> loc[p].y,
                        confidence |-> loc[p].confidence,
                        retry_count |-> loc[p].retry_count])
       \/ /\ Log(p, <<CallTap(TRUE, loc[p].repost_x, loc[p].repost_y), Sleep(1)>>)
          /\ Goto(p, "confirm_screenshot")
    /\ UNCHANGED <<kind, loc, files, templates>>

\* the files the cleanup at the end of each script removes, in order
CleanupPaths(k) ==
    CASE k = "like"    -> <<TEMP_SCREENSHOT(k), TEMP_SCREENSHOT_AFTER(k)>>
      [] k = "comment" -> <<TEMP_SCREENSHOT(k)>>
      [] k = "retweet" -> <<TEMP_SCREENSHOT(k), TEMP_SCREENSHOT_MENU,
                            TEMP_SCREENSHOT_AFTER(k)>>
      [] k = "follow"  -> <<TEMP_SCREENSHOT(k), TEMP_SCREENSHOT_AFTER(k)>>

\* faulty variant: a failed confirmation capture fails the action
ConfirmScreenshot_Checked(p, FS) ==
    /\ pc[p] = "confirm_screenshot"
    /\ \/ /\ Log(p, <<CallCapture(FALSE, TEMP_SCREENSHOT_AFTER(kind[p]), "confirm")>>)
          /\ Return(p, [success |-> FALSE, error |-> "SCREENSHOT_FAILED"])
          /\ UNCHANGED <<files, loc>>
       \/ Captured(p, TEMP_SCREENSHOT_AFTER(kind[p]), "confirm", FS)
    /\ UNCHANGED <<kind, templates>>

\* client.take_screenshot(TEMP_SCREENSHOT_AFTER) of like, retweet and follow,
\* with its result unused; the cleanup follows
ConfirmScreenshot(p, FS) ==
    /\ pc[p] = "confirm_screenshot"
    /\ \/ /\ Log(p, <<CallCapture(FALSE, TEMP_SCREENSHOT_AFTER(kind[p]), "confirm")>>)
          /\ Goto(p, "cleanup")
          /\ UNCHANGED <<files, loc>>
       \/ Captured(p, TEMP_SCREENSHOT_AFTER(kind[p]), "confirm", FS)
    /\ UNCHANGED <<kind, templates>>

\* take_screenshot, `f.write(img_data)` and `return True`: the call returns
\* to the script
WriteData(p) ==
    /\ pc[p] = "f_write"
    /\ files' = WriteFile(files, loc[p].save_path, loc[p].img_data, p)
    /\ Log(p, <<CallCapture(TRUE, loc[p].save_path, loc[p].site)>>)
    /\ loc' = [loc EXCEPT ![p].img_data = ImgNone, ![p].save_path = "",
                          ![p].site = ""]
    /\ Goto(p, AfterCapture(loc[p].site))
    /\ UNCHANGED <<kind, templates>>

\* try: os.remove(...); os.remove(...) except: pass, one os.remove at a
\* time: a missing file raises and ends the cleanup; after the cleanup the
\* script returns its success dict
Remove(p) ==
    /\ pc[p] = "cleanup"
    /\ LET paths == CleanupPaths(kind[p])
           path  == paths[loc[p].removed + 1]
       IN  IF ~files[path].exists
           THEN /\ Return(p, SuccessOutcome(kind[p], loc[p]))
                /\ UNCHANGED <<files, loc>>
           ELSE /\ files' = [files EXCEPT ![path] = NoFile]
                /\ loc' = [loc EXCEPT ![p].removed = @ + 1]
                /\ IF loc[p].removed + 1 = Len(paths)
                   THEN Return(p, SuccessOutcome(kind[p], loc[p]))
                   ELSE Goto(p, "cleanup")
    /\ UNCHANGED <<kind, templates, calls>>

(***************************************************************************)
(* Specifications.                                                         *)
(***************************************************************************)
InitCommon ==
    /\ pc = [p \in Procs |-> StartPc(kind[p])]
    /\ loc \in [Procs -> UNION {{Locals0(a) : a \in Args(k)} : k \in Kinds}]
    /\ \A p \in Procs : loc[p].arg \in Args(kind[p])
    /\ files = [path \in Paths |-> NoFile]
    /\ calls = [p \in Procs |-> <<>>]
    /\ outcome = [p \in Procs |-> NoOutcome]

\* one invocation, run alone
Init ==
    /\ kind \in {k \in [Procs -> Kinds \cup {"none"}] : k[1] \in Kinds /\ k[2] = "none"}
    /\ templates \in {TemplatesGood, TemplatesNoRepost, TemplatesMissing}
    /\ InitCommon

Step(p, FS) ==
    \/ OpenUrl(p)
    \/ FirstScreenshot(p, FS)
    \/ GenerateComment(p)
    \/ TakeScreenshot(p, FS)
    \/ FindButton(p)
    \/ ScrollDown(p)
    \/ Tap(p)
    \/ InputText(p)
    \/ PostTap(p)
    \/ MenuScreenshot(p, FS)
    \/ FindRepostOption(p)
    \/ TapRepostOption(p)
    \/ ConfirmScreenshot(p, FS)
    \/ WriteData(p)
    \/ Remove(p)

Next == \E p \in Procs : Step(p, Frames)

Spec == Init /\ [][Next]_vars

\* the locator run on every small correlation surface: up to MaxPts offsets
\* of the surface carry a confidence worth looking at, on a grid whose rows
\* lie 10, 39, 40, 49, 50 and more pixels apart
MaxPts == 3
LocXs == {100, 500}
LocYs == {100, 110, 149, 150, 900}
\* below the threshold, the float32 nearest to it (which is below 0.65 and
\* passes the comparison), and above it
LocConfs == {Conf(60), Conf(65), Conf(90)}
Offsets == LocXs \X LocYs

\* row-major order of two offsets <<x, y>>, the order np.where lists them in
RowMajorLess(a, b) == a[2] < b[2] \/ (a[2] = b[2] /\ a[1] < b[1])

RECURSIVE RowMajor(_)
RowMajor(S) ==
    IF S = {} THEN <<>>
    ELSE LET first == CHOOSE a \in S : \A b \in S \ {a} : RowMajorLess(a, b)
         IN  <<first>> \o RowMajor(S \ {first})

Surfaces ==
    UNION {{[k \in 1..Cardinality(S) |-> Pt(RowMajor(S)[k][1], RowMajor(S)[k][2], c[k])] :
                c \in [1..Cardinality(S) -> LocConfs]} :
           S \in {T \in SUBSET Offsets : Cardinality(T) \in 1..MaxPts}}

SurfaceFrames == {[readable |-> TRUE, surface |-> s] : s \in Surfaces}

\* the frames the device shows in pass i of the loop. The like action
\* locates with the topmost policy: its first frame is any of the small
\* surfaces, and the frames after a scroll or a failed capture are those of
\* Frames. The retweet action finds its control on FrameOne and then locates
\* the menu option with the highest-confidence policy on any small surface
LoopFrames(k, i) ==
    IF k = "retweet" THEN {FrameOne}
    ELSE IF i = 0 THEN SurfaceFrames
    ELSE Frames

InitLocate ==
    /\ kind \in {k \in [Procs -> Kinds \cup {"none"}] :
                    k[1] \in {"like", "retweet"} /\ k[2] = "none"}
    /\ templates = TemplatesGood
    /\ InitCommon

NextLocate ==
    \E p \in Procs :
        \/ OpenUrl(p)
        \/ TakeScreenshot(p, LoopFrames(kind[p], loc[p].i))
        \/ FindButton(p)
        \/ ScrollDown(p)
        \/ Tap(p)
        \/ MenuScreenshot(p, SurfaceFrames)
        \/ WriteData(p)
        \/ FindRepostOption(p)

SpecLocate == InitLocate /\ [][NextLocate]_vars

\* the scripts that keep their screenshot in /tmp/screenshot.png
SharingKinds == {k \in Kinds : TEMP_SCREENSHOT(k) = TEMP_SCREENSHOT("like")}

\* two invocations scheduled concurrently by an external driver: a like
\* action next to an action that uses the same screenshot file
InitConc ==
    /\ kind \in {k \in [Procs -> SharingKinds] : k[1] = "like"}
    /\ templates = TemplatesGood
    /\ InitCommon

\* the steps of the like and comment scripts; inside take_screenshot and
\* inside the cleanup each system call is a step of its own, so the other
\* invocation runs between them
NextConc ==
    \E p \in Procs :
        \/ OpenUrl(p)
        \/ FirstScreenshot(p, FramesConc)
        \/ GenerateComment(p)
        \/ TakeScreenshot(p, FramesConc)
        \/ FindButton(p)
        \/ ScrollDown(p)
        \/ Tap(p)
        \/ InputText(p)
        \/ PostTap(p)
        \/ ConfirmScreenshot(p, FramesConc)
        \/ WriteData(p)
        \/ Remove(p)

SpecConc == InitConc /\ [][NextConc]_vars

(***************************************************************************)
(* Reading the call history.                                               *)
(***************************************************************************)
Calls(p, op) == SelectSeq(calls[p], LAMBDA c : c.op = op)

NCalls(p, op) == Len(Calls(p, op))

\* the collaborator calls: everything but the settle delays
Collab(p) == SelectSeq(calls[p], LAMBDA c : c.op # "sleep")

Done(p) == pc[p] = "done"

Failed(p, error) ==
    /\ Done(p)
    /\ ~outcome[p].success
    /\ outcome[p].error = error

LoopKinds == {"like", "comment", "retweet"}

(***************************************************************************)
(* Claims.                                                                 *)
(***************************************************************************)

\* C1: in each of the four actions, when openUrl returns false the action has
\* returned {success: False, error: FAILED_TO_OPEN_URL} and the failed openUrl
\* is the only call of the invocation.
C1_OpenUrlFailureStops ==
    \A p \in Procs :
        (calls[p] # <<>> /\ calls[p][1] = CallOpenUrl(FALSE)) =>
            /\ Done(p)
            /\ outcome[p] = [success |-> FALSE, error |-> "FAILED_TO_OPEN_URL"]
            /\ calls[p] = <<CallOpenUrl(FALSE)>>

C1_Witness ==
    \E p \in Procs :
        /\ kind[p] = "retweet"
        /\ Failed(p, "FAILED_TO_OPEN_URL")
        /\ calls[p] = <<CallOpenUrl(FALSE)>>

\* the URL opened, every capture succeeded, a comment was generated (comment
\* action) and no locate call found the control
C2_Case(p) ==
    /\ kind[p] \in LoopKinds
    /\ Done(p)
    /\ calls[p][1] = CallOpenUrl(TRUE)
    /\ \A k \in DOMAIN calls[p] : calls[p][k].op = "capture" => calls[p][k].ok
    /\ \A k \in DOMAIN calls[p] : calls[p][k].op = "locate" => ~calls[p][k].ok
    /\ kind[p] = "comment" =>
          \E k \in DOMAIN calls[p] :
              /\ calls[p][k].op = "describeAndComment"
              /\ calls[p][k].text \notin {"", NoneText}

\* C2: like, comment, retweet: when the URL opened, every capture succeeded
\* and no locate call found the control, the finished invocation made exactly
\* MAX_RETRY locate calls and MAX_RETRY - 1 swipeDown calls, no tap, and
\* returned the control's *_BUTTON_NOT_FOUND error.
C2_RetryBound ==
    \A p \in Procs :
        C2_Case(p) =>
            /\ NCalls(p, "locate") = MAX_RETRY
            /\ NCalls(p, "swipeDown") = MAX_RETRY - 1
            /\ NCalls(p, "tap") = 0
            /\ Failed(p, NOT_FOUND_ERROR(kind[p]))

C2_Witness ==
    \E p \in Procs :
        /\ C2_Case(p)
        /\ kind[p] = "comment"
        /\ \A k \in DOMAIN calls[p] :
              calls[p][k].op = "locate" => calls[p][k].result.error = "NOT_FOUND"
        /\ NCalls(p, "locate") = MAX_RETRY

\* C3: comment action: when generate_ai_comment returns no text (None or the
\* empty string) the action has returned COMMENT_GENERATION_FAILED and the
\* generation call is the last call of the invocation.
C3_GenerationFailFast ==
    \A p \in Procs : \A k \in DOMAIN calls[p] :
        (calls[p][k].op = "describeAndComment" /\ calls[p][k].text \in {"", NoneText}) =>
            /\ k = Len(calls[p])
            /\ Done(p)
            /\ outcome[p] = [success |-> FALSE, error |-> "COMMENT_GENERATION_FAILED"]

C3_Witness ==
    \E p \in Procs :
        /\ Failed(p, "COMMENT_GENERATION_FAILED")
        /\ calls[p][Len(calls[p])].op = "describeAndComment"
        /\ calls[p][Len(calls[p])].text = NoneText

\* the capture calls of p made at a site
CapturesAt(p, site) ==
    SelectSeq(calls[p], LAMBDA c : c.op = "capture" /\ c.site = site)

\* the locate calls of p on the file at path
LocatesOn(p, path) ==
    SelectSeq(calls[p], LAMBDA c : c.op = "locate" /\ c.path = path)

\* retweet action returned success after its menu-option locate call failed
C4_Case(p) ==
    /\ kind[p] = "retweet"
    /\ Done(p)
    /\ outcome[p].success
    /\ LocatesOn(p, TEMP_SCREENSHOT_MENU) # <<>>
    /\ ~LocatesOn(p, TEMP_SCREENSHOT_MENU)[1].ok

\* C4 as stated: retweet action, menu-option locate failed and the tap at the
\* fallback coordinate succeeded: the outcome reports the fallback coordinates
\* (REPOST_OPTION_X, REPOST_OPTION_Y) and confidence 0.
C4_FallbackReported ==
    \A p \in Procs :
        C4_Case(p) =>
            /\ outcome[p].x = REPOST_OPTION_X
            /\ outcome[p].y = REPOST_OPTION_Y
            /\ outcome[p].confidence = 0

\* C4 amended: a retweet action that returned success tapped the located
\* retweet control and then the menu option, at the located point or, when
\* the menu-option locate failed, at the fallback coordinate; in both cases
\* the outcome is success with the x, y and confidence the first localization
\* pass reported for the retweet control and the retry count, and nothing
\* about the menu option, so it does not tell a fallback from a located one.
C4_RetweetControlReported ==
    \A p \in Procs :
        (kind[p] = "retweet" /\ Done(p) /\ outcome[p].success) =>
            LET found == LocatesOn(p, TEMP_SCREENSHOT("retweet"))
                r     == found[Len(found)].result
                menu  == LocatesOn(p, TEMP_SCREENSHOT_MENU)
                taps  == Calls(p, "tap")
            IN  /\ r.success
                /\ Len(menu) = 1
                /\ taps = <<CallTap(TRUE, r.x, r.y),
                            IF menu[1].ok
                            THEN CallTap(TRUE, menu[1].result.x, menu[1].result.y)
                            ELSE CallTap(TRUE, REPOST_OPTION_X, REPOST_OPTION_Y)>>
                /\ outcome[p] = [success |-> TRUE, x |-> r.x, y |-> r.y,
                                 confidence |-> r.confidence,
                                 retry_count |-> Len(CapturesAt(p, "loop"))]

C4_Witness ==
    \E p \in Procs :
        /\ C4_Case(p)
        /\ LocatesOn(p, TEMP_SCREENSHOT_MENU)[1].result.error = "NOT_FOUND"
        /\ outcome[p].x # REPOST_OPTION_X

\* C5 as stated: every failure outcome of every action carries retry_count.
C5_RetryCountOnEveryFailure ==
    \A p \in Procs :
        (Done(p) /\ ~outcome[p].success) => "retry_count" \in DOMAIN outcome[p]

\* the largest confidence the locate calls of p reported (0 without calls)
BestObserved(p) ==
    LET L == Calls(p, "locate")
        C == {L[k].result.confidence : k \in DOMAIN L}
    IN  IF L = <<>> THEN 0 ELSE CHOOSE m \in C : \A c \in C : c <= m

\* C6 as stated: the *_BUTTON_NOT_FOUND outcome of like, comment and retweet
\* carries the maximum confidence any locate call of the invocation reported,
\* and the retry count.
C6_BestConfidenceReported ==
    \A p \in Procs :
        (kind[p] \in LoopKinds /\ Done(p) /\ ~outcome[p].success
            /\ outcome[p].error = NOT_FOUND_ERROR(kind[p])) =>
            /\ "retry_count" \in DOMAIN outcome[p]
            /\ outcome[p].confidence = BestObserved(p)

LastCall(p) == calls[p][Len(calls[p])]

\* p returned right after a capture call failed
FailedCaptureLast(p, site) ==
    /\ Done(p)
    /\ LastCall(p).op = "capture"
    /\ LastCall(p).site = site
    /\ ~LastCall(p).ok

\* C7 as stated: no action ends with a capture-specific error; a failed
\* capture only consumes an attempt and exhaustion gives *_NOT_FOUND.
C7_NoCaptureSpecificError ==
    \A p \in Procs :
        (Done(p) /\ ~outcome[p].success) =>
            outcome[p].error \notin {"SCREENSHOT_FAILED", "SCREENSHOT_MENU_FAILED"}

\* the capture of the current attempt has not returned yet
InLoopCapture(p) ==
    \/ pc[p] = "take_screenshot"
    \/ pc[p] = "f_write" /\ loc[p].site = "loop"

\* the number of loop captures among the first k calls of p
LoopCapturesUpTo(p, k) ==
    Cardinality({j \in 1..k : calls[p][j].op = "capture" /\ calls[p][j].site = "loop"})

\* C7 amended: what a failed capture does depends on its place. Inside the
\* retry loop every capture, failed or not, consumes one attempt; a failed
\* one is followed by the next capture, and the one that fails in the last
\* attempt ends the invocation with *_BUTTON_NOT_FOUND and retry_count =
\* MAX_RETRY. The comment action's first capture failing ends the invocation
\* with SCREENSHOT_FAILED, the retweet action's menu capture failing ends it
\* with SCREENSHOT_MENU_FAILED, and these two errors have no other cause. A
\* failed confirmation capture is ignored: the invocation goes on to its
\* cleanup and returns success.
C7_CaptureFailureByPlace ==
    \A p \in Procs :
        /\ kind[p] \in LoopKinds =>
              /\ Len(CapturesAt(p, "loop")) =
                    loc[p].retry_count - (IF InLoopCapture(p) THEN 1 ELSE 0)
              /\ Len(CapturesAt(p, "loop")) <= MAX_RETRY
        /\ \A k \in DOMAIN calls[p] :
              (calls[p][k].op = "capture" /\ ~calls[p][k].ok) =>
                  CASE calls[p][k].site = "loop" ->
                          IF LoopCapturesUpTo(p, k) = MAX_RETRY
                          THEN /\ k = Len(calls[p])
                               /\ Failed(p, NOT_FOUND_ERROR(kind[p]))
                               /\ outcome[p].retry_count = MAX_RETRY
                          ELSE IF k = Len(calls[p])
                          THEN pc[p] \in {"take_screenshot", "f_write"}
                          ELSE /\ calls[p][k + 1].op = "capture"
                               /\ calls[p][k + 1].site = "loop"
                    [] calls[p][k].site = "first" ->
                          /\ k = Len(calls[p])
                          /\ Done(p)
                          /\ outcome[p] = [success |-> FALSE, error |-> "SCREENSHOT_FAILED"]
                    [] calls[p][k].site = "menu" ->
                          /\ k = Len(calls[p])
                          /\ Failed(p, "SCREENSHOT_MENU_FAILED")
                    [] calls[p][k].site = "confirm" ->
                          /\ k = Len(calls[p])
                          /\ pc[p] \in {"cleanup", "done"}
                          /\ Done(p) => outcome[p].success
        /\ (Done(p) /\ ~outcome[p].success /\ outcome[p].error = "SCREENSHOT_FAILED")
              => FailedCaptureLast(p, "first")
        /\ (Done(p) /\ ~outcome[p].success /\ outcome[p].error = "SCREENSHOT_MENU_FAILED")
              => FailedCaptureLast(p, "menu")

C7_Witness ==
    \E p \in Procs :
        /\ FailedCaptureLast(p, "loop")
        /\ \A k \in DOMAIN CapturesAt(p, "loop") : ~CapturesAt(p, "loop")[k].ok
        /\ Len(CapturesAt(p, "loop")) = MAX_RETRY
        /\ Failed(p, "LIKE_BUTTON_NOT_FOUND")

\* C8 as stated: with two invocations interleaved, every locate call and
\* every comment-generation call of an invocation reads a frame that the same
\* invocation captured.
C8_OwnFramesOnly ==
    \A p \in Procs : \A k \in DOMAIN calls[p] :
        calls[p][k].op \in {"locate", "describeAndComment"} => calls[p][k].writer = p

\* tap number k of p comes after a locate call of p that found the control
TapAfterFound(p, k) ==
    \E j \in 1..(k - 1) : calls[p][j].op = "locate" /\ calls[p][j].ok

\* C9 as stated: in every action a tap is issued only after a locate call of
\* the same invocation returned Found.
C9_TapOnlyAfterFound ==
    \A p \in Procs : \A k \in DOMAIN calls[p] :
        calls[p][k].op = "tap" => TapAfterFound(p, k)

\* every locate call of p hit an unreadable frame or template
OnlyImageLoadErrors(p) ==
    /\ Calls(p, "locate") # <<>>
    /\ \A k \in DOMAIN calls[p] : calls[p][k].op = "locate" => ~calls[p][k].loaded

\* C10 as stated: a locate call on an unreadable frame or template does not
\* answer NOT_FOUND, and an action all of whose locate calls hit an image-load
\* error does not end with *_BUTTON_NOT_FOUND.
C10_ImageLoadErrorNotAbsent ==
    \A p \in Procs :
        /\ \A k \in DOMAIN calls[p] :
              (calls[p][k].op = "locate" /\ ~calls[p][k].loaded) =>
                  /\ ~calls[p][k].ok
                  /\ calls[p][k].result.error # "NOT_FOUND"
        /\ (kind[p] \in LoopKinds /\ Done(p) /\ OnlyImageLoadErrors(p)) =>
              ~(~outcome[p].success /\ outcome[p].error = NOT_FOUND_ERROR(kind[p]))

\* the texts the generation calls of p returned that count as a comment
GeneratedTexts(p) ==
    {calls[p][k].text : k \in {j \in DOMAIN calls[p] :
                                  /\ calls[p][j].op = "describeAndComment"
                                  /\ calls[p][j].text \notin {"", NoneText}}}

\* C11: in the comment action, every outcome returned after the comment was
\* generated (COMMENT_BUTTON_NOT_FOUND, TAP_FAILED, INPUT_FAILED,
\* POST_TAP_FAILED and success) has a comment field, and it holds the text
\* the generation call returned.
C11_OutcomeCarriesComment ==
    \A p \in Procs :
        (kind[p] = "comment" /\ Done(p) /\ GeneratedTexts(p) # {}) =>
            /\ outcome[p].success \/
                  outcome[p].error \in {"COMMENT_BUTTON_NOT_FOUND", "TAP_FAILED",
                                        "INPUT_FAILED", "POST_TAP_FAILED"}
            /\ "comment" \in DOMAIN outcome[p]
            /\ GeneratedTexts(p) = {outcome[p].comment}

C11_Witness ==
    \E p \in Procs :
        /\ kind[p] = "comment"
        /\ Failed(p, "TAP_FAILED")
        /\ GeneratedTexts(p) = {"it's great"}
        /\ outcome[p].comment = "it's great"

\* the number of tap calls of p before position k of its history
TapsBefore(p, k) == Cardinality({j \in 1..(k - 1) : calls[p][j].op = "tap"})

\* the error each script names for a failure of the call at position k
InjectionError(p, k) ==
    CASE calls[p][k].op = "inputText" -> "INPUT_FAILED"
      [] calls[p][k].op = "tap" /\ TapsBefore(p, k) = 0 ->
            (CASE kind[p] \in {"like", "comment"} -> "TAP_FAILED"
               [] kind[p] = "retweet" -> "TAP_RETWEET_BUTTON_FAILED"
               [] kind[p] = "follow"  -> "TAP_FOLLOW_BUTTON_FAILED")
      [] calls[p][k].op = "tap" /\ TapsBefore(p, k) > 0 ->
            (CASE kind[p] = "comment" -> "POST_TAP_FAILED"
               [] kind[p] = "retweet" -> "TAP_REPOST_OPTION_FAILED"
               [] OTHER -> "<no second tap>")

\* C12: a tap or inputText call that returned false is the last entry of the
\* invocation's history (no retry, no further call), and the action has
\* returned success = False with the error named for that step.
C12_InjectionFailureTerminal ==
    \A p \in Procs : \A k \in DOMAIN calls[p] :
        (calls[p][k].op \in {"tap", "inputText"} /\ ~calls[p][k].ok) =>
            /\ k = Len(calls[p])
            /\ Failed(p, InjectionError(p, k))

C12_Witness ==
    \E p \in Procs :
        /\ kind[p] = "retweet"
        /\ Failed(p, "TAP_REPOST_OPTION_FAILED")
        /\ LastCall(p).op = "tap" /\ ~LastCall(p).ok
        /\ TapsBefore(p, Len(calls[p])) = 1

\* C13 as stated: an invocation that returned success = True has had every
\* openUrl, swipeDown, tap and inputText call return true.
C13_SuccessNeedsEveryCallOk ==
    \A p \in Procs :
        (Done(p) /\ outcome[p].success) =>
            \A k \in DOMAIN calls[p] :
                calls[p][k].op \in {"openUrl", "swipeDown", "tap", "inputText"} =>
                    calls[p][k].ok

\* what the calls made before the confirmation capture determine: the
\* coordinates of the first tap, the confidence of the locate call that found
\* the control and the number of attempts (the follow action: 0 and 1)
BeforeConfirm(p) ==
    LET tap1  == Calls(p, "tap")[1]
        found == LocatesOn(p, TEMP_SCREENSHOT(kind[p]))
        base  == [success |-> TRUE, x |-> tap1.x, y |-> tap1.y,
                  confidence |-> IF kind[p] = "follow" THEN 0
                                 ELSE found[Len(found)].result.confidence,
                  retry_count |-> IF kind[p] = "follow" THEN 1
                                  ELSE Len(CapturesAt(p, "loop"))]
    IN  IF kind[p] = "follow"
        THEN [success |-> TRUE, x |-> base.x, y |-> base.y,
              confidence |-> base.confidence, retry_count |-> base.retry_count,
              target_username |-> lstrip(loc[p].arg, "@")]
        ELSE base

\* C14: in the like, retweet and follow actions the confirmation capture is
\* the last call; whether it returned true or false, only the removal of the
\* temporary files is left to do, and the action returns success = True with
\* the fields fixed by the calls before it.
C14_ConfirmationNeverAffectsOutcome ==
    \A p \in Procs : \A k \in DOMAIN calls[p] :
        (calls[p][k].op = "capture" /\ calls[p][k].site = "confirm") =>
            /\ kind[p] \in {"like", "retweet", "follow"}
            /\ k = Len(calls[p])
            /\ pc[p] \in {"cleanup", "done"}
            /\ Done(p) => outcome[p] = BeforeConfirm(p)

C14_Witness ==
    \E p \in Procs :
        /\ kind[p] = "retweet"
        /\ Done(p)
        /\ LastCall(p) = CallCapture(FALSE, TEMP_SCREENSHOT_AFTER("retweet"), "confirm")
        /\ outcome[p].success
        /\ outcome[p] = BeforeConfirm(p)

\* the most collaborator calls an invocation makes: openUrl, MAX_RETRY
\* captures and locate calls with MAX_RETRY - 1 scrolls between them, and
\* five more (comment: first capture, generation, tap, input, tap; retweet:
\* tap, menu capture, locate, tap, confirmation capture)
CallBound == 3 * MAX_RETRY + 5

\* p has returned a dict that is a success or names an error
Terminal(p) ==
    /\ Done(p)
    /\ outcome[p] # NoOutcome
    /\ "success" \in DOMAIN outcome[p]
    /\ ~outcome[p].success => "error" \in DOMAIN outcome[p]

\* p has a next statement to run whatever its collaborators return; the two
\* locate steps have no condition but their position in the script
CanStep(p) ==
    \/ pc[p] \in {"find_button", "find_repost_option"}
    \/ ENABLED (\/ OpenUrl(p)
                \/ FirstScreenshot(p, Frames)
                \/ GenerateComment(p)
                \/ TakeScreenshot(p, Frames)
                \/ ScrollDown(p)
                \/ Tap(p)
                \/ InputText(p)
                \/ PostTap(p)
                \/ MenuScreenshot(p, Frames)
                \/ TapRepostOption(p)
                \/ ConfirmScreenshot(p, Frames)
                \/ WriteData(p)
                \/ Remove(p))

\* how far an invocation has got: two for each collaborator call that has
\* returned, one while a capture is between opening its file and writing it,
\* one for each temporary file removed, one for having returned
Progress(cs, l, at) ==
    2 * Len(SelectSeq(cs, LAMBDA c : c.op # "sleep"))
        + (IF at = "f_write" THEN 1 ELSE 0)
        + l.removed
        + (IF at = "done" THEN 1 ELSE 0)

\* C15: an invocation that has not returned always has a next statement to
\* run; every step takes it further (a collaborator call returns, a capture
\* opens its file, a temporary file is removed, or it returns), it never
\* makes more than CallBound collaborator calls and removes at most three
\* files, so it returns after a bounded number of steps; what it returned
\* is a success or a named failure, and nothing changes once it has returned.
C15_Terminates ==
    /\ [](\A p \in Procs : kind[p] \in Kinds =>
              /\ Len(Collab(p)) <= CallBound
              /\ Progress(calls[p], loc[p], pc[p]) <= 2 * CallBound + 4
              /\ (Terminal(p) /\ ~CanStep(p)) \/ (~Done(p) /\ CanStep(p)))
    /\ [][\E p \in Procs :
              /\ ~Done(p)
              /\ Progress(calls'[p], loc'[p], pc'[p]) > Progress(calls[p], loc[p], pc[p])
              /\ \A q \in Procs \ {p} :
                    calls'[q] = calls[q] /\ outcome'[q] = outcome[q] /\ pc'[q] = pc[q]]_vars

C15_Witness ==
    \E p \in Procs :
        /\ Terminal(p)
        /\ ~outcome[p].success
        /\ Len(Collab(p)) = CallBound

\* the locate calls of p that met detections at or above the threshold, each
\* with the deduplicated candidates of the frame it read
DedupSets(p) ==
    {[call |-> calls[p][k],
      set  |-> Filtered(Matches(Where(files[calls[p][k].path].frame.surface),
                                TemplateImg(TRUE)))] :
        k \in {j \in DOMAIN calls[p] : calls[p][j].op = "locate" /\ calls[p][j].ok}}

\* the vertical centers of the detections of a frame
DetectionYs(frame) ==
    LET m == Matches(Where(frame.surface), TemplateImg(TRUE))
    IN  {m[k].y : k \in DOMAIN m}

\* C16: the candidates the locator keeps after deduplication lie pairwise at
\* least 50 px apart vertically; detections at vertical centers 120 and 130
\* (a pair 10 px apart) and 920 (800 px below) leave exactly 2 candidates.
C16_DedupInvariant ==
    \A p \in Procs : \A d \in DedupSets(p) :
        /\ \A i, j \in DOMAIN d.set :
              i # j => Abs(d.set[i].y - d.set[j].y) >= 50
        /\ d.call.result.count = Len(d.set)
        /\ DetectionYs(files[d.call.path].frame) = {120, 130, 920} =>
              d.call.result.count = 2

C16_Witness ==
    \E p \in Procs : \E d \in DedupSets(p) :
        /\ DetectionYs(files[d.call.path].frame) = {120, 130, 920}
        /\ Len(Where(files[d.call.path].frame.surface)) = 3
        /\ d.call.result.count = 2
        /\ Len(d.set) = 2

\* the policy of a locate call: only find_repost_option, which reads the menu
\* screenshot, passes select_topmost=False
Topmost(call) == call.path # TEMP_SCREENSHOT_MENU

\* the result of a locate call names a candidate of the set
Names(result, set) ==
    \E k \in DOMAIN set :
        /\ set[k].x = result.x
        /\ set[k].y = result.y
        /\ set[k].conf = result.confidence

\* C17: a locate call with the topmost policy returns the candidate of the
\* deduplicated set with the least vertical coordinate, a call with the
\* highest-confidence policy returns a candidate whose confidence is the
\* greatest of the set, and the count returned is the size of the set.
C17_SelectionPolicy ==
    \A p \in Procs : \A d \in DedupSets(p) :
        /\ Names(d.call.result, d.set)
        /\ d.call.result.count = Len(d.set)
        /\ IF Topmost(d.call)
           THEN \A k \in DOMAIN d.set : d.call.result.y <= d.set[k].y
           ELSE \A k \in DOMAIN d.set : d.call.result.confidence >= d.set[k].conf

\* a highest-confidence call that passed over the topmost candidate
C17_Witness ==
    \E p \in Procs : \E d \in DedupSets(p) :
        /\ ~Topmost(d.call)
        /\ Len(d.set) = 2
        /\ d.call.result.y = d.set[2].y
        /\ d.call.result.confidence > d.set[1].conf
        /\ \E q \in Procs : \E e \in DedupSets(q) : Topmost(e.call)

\* the confidences of the correlation surface a locate call computed, read
\* while the file still holds the frame the call read
SurfaceConfs(call) ==
    LET s == files[call.path].frame.surface IN {s[k].conf : k \in DOMAIN s}

\* C18 as stated: on a readable frame and template a locate call succeeds
\* exactly when some offset of the surface has a confidence of at least
\* THRESHOLD; a successful call reports a confidence of at least THRESHOLD, a
\* failed one answers NOT_FOUND with the greatest confidence of the whole
\* surface, which is below THRESHOLD. Each call is looked at when it has just
\* returned, before a later capture replaces the frame.
C18_FoundIffAboveThreshold ==
    \A p \in Procs : \A k \in DOMAIN calls[p] :
        (calls[p][k].op = "locate" /\ calls[p][k].loaded /\ k = Len(calls[p])) =>
            LET call == calls[p][k]
                r    == call.result
            IN  /\ r.success <=> \E c \in SurfaceConfs(call) : c >= THRESHOLD
                /\ r.success => r.confidence >= THRESHOLD
                /\ ~r.success =>
                      /\ r.error = "NOT_FOUND"
                      /\ r.confidence \in SurfaceConfs(call)
                      /\ \A c \in SurfaceConfs(call) : c <= r.confidence
                      /\ r.confidence < THRESHOLD

\* the capture at position k of p's history failed inside the retry loop
\* with attempts remaining
FailedLoopCapture(p, k) ==
    /\ calls[p][k].op = "capture"
    /\ calls[p][k].site = "loop"
    /\ ~calls[p][k].ok
    /\ Cardinality({j \in 1..k : calls[p][j].op = "capture"
                                    /\ calls[p][j].site = "loop"}) < MAX_RETRY

\* C20 as stated: in the retry loop of the like, comment and retweet actions
\* a failed capture with attempts remaining is followed by swipeDown and the
\* settle delay before the next capture.
C20_ScrollAfterFailedCapture ==
    \A p \in Procs : \A k \in DOMAIN calls[p] :
        (FailedLoopCapture(p, k) /\ k < Len(calls[p])) =>
            /\ calls[p][k + 1].op = "swipeDown"
            /\ k + 2 <= Len(calls[p])
            /\ calls[p][k + 2] = Sleep(WAIT_AFTER_SCROLL)

\* the number of localization attempts p has started: one capture each
Attempts(p) == Len(CapturesAt(p, "loop"))

\* the outcome of p reports retry_count
ReportsRetryCount(p) == Done(p) /\ "retry_count" \in DOMAIN outcome[p]

\* C21 as stated: the retry counter stays within 0..MAX_RETRY, and every
\* outcome that reports retry_count, of any of the four actions, reports the
\* number of localization attempts started, a value in 1..MAX_RETRY.
C21_RetryCountIsAttempts ==
    \A p \in Procs :
        /\ loc[p].retry_count \in 0..MAX_RETRY
        /\ ReportsRetryCount(p) =>
              /\ outcome[p].retry_count \in 1..MAX_RETRY
              /\ outcome[p].retry_count = Attempts(p)

\* the tap and inputText calls of p, in order
Injections(p) == SelectSeq(calls[p], LAMBDA c : c.op \in {"tap", "inputText"})

\* C22: in the comment action the tap and inputText calls are, in this
\* order, a tap on the located comment control, one inputText of the
\* generated comment and a tap on (POST_BUTTON_X, POST_BUTTON_Y); each is
\* issued only if the one before it returned true.
C22_CommentPostOrder ==
    \A p \in Procs :
        kind[p] = "comment" =>
            LET inj   == Injections(p)
                found == SelectSeq(calls[p], LAMBDA c : c.op = "locate" /\ c.ok)
            IN  /\ Len(inj) <= 3
                /\ Len(inj) >= 1 =>
                      /\ Len(found) = 1
                      /\ inj[1].op = "tap"
                      /\ inj[1].x = found[1].result.x
                      /\ inj[1].y = found[1].result.y
                /\ Len(inj) >= 2 =>
                      /\ inj[1].ok
                      /\ inj[2].op = "inputText"
                      /\ GeneratedTexts(p) = {inj[2].text}
                /\ Len(inj) = 3 =>
                      /\ inj[2].ok
                      /\ inj[3].op = "tap"
                      /\ inj[3].x = POST_BUTTON_X
                      /\ inj[3].y = POST_BUTTON_Y

C22_Witness ==
    \E p \in Procs :
        /\ kind[p] = "comment"
        /\ Done(p)
        /\ outcome[p].success
        /\ Len(Injections(p)) = 3
        /\ Injections(p)[2] = CallInput(TRUE, "Nice shot!")
        /\ Injections(p)[3] = CallTap(TRUE, POST_BUTTON_X, POST_BUTTON_Y)
        /\ Injections(p)[1].x # POST_BUTTON_X

\* the retweet action tapped the located retweet control successfully
FirstTapOk(p) ==
    /\ kind[p] = "retweet"
    /\ Calls(p, "tap") # <<>>
    /\ Calls(p, "tap")[1].ok

\* C23 as stated: a retweet action that has returned after its tap on the
\* located retweet control succeeded has always issued a second tap.
C23_SecondTapAlways ==
    \A p \in Procs :
        (FirstTapOk(p) /\ Done(p)) => NCalls(p, "tap") = 2

\* C23 amended: after the tap on the located retweet control succeeded and
\* the menu capture succeeded, the locate call on the menu never ends the
\* action: a second tap is issued at the coordinates it returned when it
\* found the option and at (REPOST_OPTION_X, REPOST_OPTION_Y) when it did
\* not; only a failed menu capture ends the action, with
\* SCREENSHOT_MENU_FAILED and no second tap.
C23_SecondTapUnlessMenuCaptureFailed ==
    \A p \in Procs :
        (FirstTapOk(p) /\ Done(p)) =>
            LET menu == CapturesAt(p, "menu")
                opt  == LocatesOn(p, TEMP_SCREENSHOT_MENU)
                taps == Calls(p, "tap")
            IN  /\ Len(menu) = 1
                /\ ~menu[1].ok =>
                      /\ Failed(p, "SCREENSHOT_MENU_FAILED")
                      /\ opt = <<>>
                      /\ Len(taps) = 1
                /\ menu[1].ok =>
                      /\ Len(opt) = 1
                      /\ Len(taps) = 2
                      /\ opt[1].ok =>
                            /\ taps[2].x = opt[1].result.x
                            /\ taps[2].y = opt[1].result.y
                      /\ ~opt[1].ok =>
                            /\ taps[2].x = REPOST_OPTION_X
                            /\ taps[2].y = REPOST_OPTION_Y

\* the menu option was not located and the tap at the fallback coordinate,
\* issued all the same, failed
C23_Witness ==
    \E p \in Procs :
        /\ FirstTapOk(p)
        /\ Failed(p, "TAP_REPOST_OPTION_FAILED")
        /\ ~LocatesOn(p, TEMP_SCREENSHOT_MENU)[1].ok
        /\ LocatesOn(p, TEMP_SCREENSHOT_MENU)[1].result.error = "NOT_FOUND"
        /\ Calls(p, "tap")[2] = CallTap(FALSE, REPOST_OPTION_X, REPOST_OPTION_Y)

\* p made exactly one confirmation capture, after its last tap and as its
\* last call
OneConfirmationLast(p) ==
    /\ Len(CapturesAt(p, "confirm")) = 1
    /\ LastCall(p).op = "capture"
    /\ LastCall(p).site = "confirm"
    /\ \E k \in DOMAIN calls[p] : calls[p][k].op = "tap"

\* C24 as stated: every run of any of the four actions that returned
\* success = True made exactly one confirmation capture after its last tap.
C24_ConfirmationOnEverySuccess ==
    \A p \in Procs :
        (Done(p) /\ outcome[p].success) => OneConfirmationLast(p)

\* C24 amended: a run of the like, retweet or follow action that returned
\* success = True made exactly one confirmation capture, after its last tap
\* and before returning; the comment action makes no confirmation capture,
\* its last call is the tap on (POST_BUTTON_X, POST_BUTTON_Y).
C24_ConfirmationExceptComment ==
    \A p \in Procs :
        /\ (Done(p) /\ outcome[p].success /\ kind[p] # "comment") =>
              OneConfirmationLast(p)
        /\ kind[p] = "comment" =>
              /\ CapturesAt(p, "confirm") = <<>>
              /\ (Done(p) /\ outcome[p].success) =>
                    LastCall(p) = CallTap(TRUE, POST_BUTTON_X, POST_BUTTON_Y)

\* a retweet run that succeeded: its confirmation capture follows the tap on
\* the menu option
C24_Witness ==
    \E p \in Procs :
        /\ kind[p] = "retweet"
        /\ Done(p)
        /\ outcome[p].success
        /\ OneConfirmationLast(p)
        /\ LastCall(p).ok
        /\ calls[p][Len(calls[p]) - 2].op = "tap"

\* the number of loop captures among the first k calls of p
AttemptsUpTo(p, k) ==
    Cardinality({j \in 1..k : calls[p][j].op = "capture" /\ calls[p][j].site = "loop"})

\* C25: a swipeDown call comes directly after a locate call that did not
\* succeed, itself directly after a successful capture of the loop, in an
\* attempt that is not the last; an invocation makes at most MAX_RETRY - 1
\* swipeDown calls, none after a locate call that found the control, and the
\* follow action makes none.
C25_ScrollOnlyAfterNotFound ==
    \A p \in Procs :
        /\ NCalls(p, "swipeDown") <= MAX_RETRY - 1
        /\ kind[p] = "follow" => NCalls(p, "swipeDown") = 0
        /\ \A k \in DOMAIN calls[p] :
              calls[p][k].op = "swipeDown" =>
                  /\ k >= 3
                  /\ calls[p][k - 1].op = "locate"
                  /\ ~calls[p][k - 1].ok
                  /\ calls[p][k - 2].op = "capture"
                  /\ calls[p][k - 2].site = "loop"
                  /\ calls[p][k - 2].ok
                  /\ AttemptsUpTo(p, k) < MAX_RETRY
                  /\ \A j \in 1..k : calls[p][j].op = "locate" => ~calls[p][j].ok

\* the most scrolls an invocation makes, the first of which returned false
C25_Witness ==
    \E p \in Procs :
        /\ kind[p] = "comment"
        /\ Done(p)
        /\ NCalls(p, "swipeDown") = MAX_RETRY - 1
        /\ Attempts(p) = MAX_RETRY
        /\ ~Calls(p, "swipeDown")[1].ok

\* C26: in an invocation run alone every locate call comes directly after a
\* successful capture, of the loop or of the menu, written by the invocation
\* to the path the locate call reads; a failed capture is never followed by a
\* locate call, so no frame of an earlier capture is matched.
C26_LocateOnFreshFrame ==
    \A p \in Procs : \A k \in DOMAIN calls[p] :
        /\ calls[p][k].op = "locate" =>
              /\ k >= 2
              /\ calls[p][k - 1].op = "capture"
              /\ calls[p][k - 1].ok
              /\ calls[p][k - 1].site \in {"loop", "menu"}
              /\ calls[p][k - 1].path = calls[p][k].path
              /\ calls[p][k].writer = p
        /\ (calls[p][k].op = "capture" /\ ~calls[p][k].ok /\ k < Len(calls[p])) =>
              calls[p][k + 1].op # "locate"

\* a comment run whose first attempt failed to capture while the frame of
\* the initial capture was still on disk, and whose second attempt captured
\* and located
C26_Witness ==
    \E p \in Procs : \E k \in DOMAIN calls[p] :
        /\ kind[p] = "comment"
        /\ calls[p][k] = CallCapture(FALSE, TEMP_SCREENSHOT("comment"), "loop")
        /\ k + 2 <= Len(calls[p])
        /\ calls[p][k + 1] = CallCapture(TRUE, TEMP_SCREENSHOT("comment"), "loop")
        /\ calls[p][k + 2].op = "locate"
        /\ CapturesAt(p, "first") = <<CallCapture(TRUE, TEMP_SCREENSHOT("comment"), "first")>>

\* the raw candidates of the frame a locate call read
Raw(call) == Matches(Where(files[call.path].frame.surface), TemplateImg(TRUE))

\* the kept candidate a raw candidate m belongs to: the first one, in
\* vertical order, less than 50 px from it (0 if there is none)
GroupOf(m, set) ==
    LET near == {k \in DOMAIN set : Abs(m.y - set[k].y) < 50}
    IN  IF near = {} THEN 0 ELSE CHOOSE k \in near : \A j \in near : k <= j

\* C27: every raw candidate at or above the threshold lies less than 50 px
\* (vertically) from a kept candidate; the kept candidate of its group is a
\* raw candidate and none of the group lies above it; a locate call with the
\* topmost policy returns the least vertical coordinate of all raw
\* candidates.
C27_DedupLosesNoControl ==
    \A p \in Procs : \A d \in DedupSets(p) :
        LET raw == Raw(d.call) IN
        /\ \A k \in DOMAIN d.set : \E i \in DOMAIN raw : raw[i] = d.set[k]
        /\ \A i \in DOMAIN raw :
              /\ GroupOf(raw[i], d.set) # 0
              /\ d.set[GroupOf(raw[i], d.set)].y <= raw[i].y
        /\ Topmost(d.call) =>
              \A i \in DOMAIN raw : d.call.result.y <= raw[i].y

\* raw candidates at 120, 169 and 170: the one at 169 is dropped for the one
\* kept at 120, although it lies 1 px above the one kept at 170
C27_Witness ==
    \E p \in Procs : \E d \in DedupSets(p) :
        /\ Topmost(d.call)
        /\ {Raw(d.call)[i].y : i \in DOMAIN Raw(d.call)} = {120, 169, 170}
        /\ {d.set[k].y : k \in DOMAIN d.set} = {120, 170}
        /\ d.call.result.y = 120

====
